---- MODULE Spec2Model ----
(***************************************************************************)
(* A model of the riscv-emu execution engine (emu/src/cpu.rs) together     *)
(* with the decoder (src/inst.rs), the register file (src/reg.rs) and the  *)
(* memory window (src/rom.rs).                                             *)
(*                                                                         *)
(* Representation of machine words.  A 32-bit value (uxlen = u32) is held  *)
(* as the integer in -2^31 .. 2^31-1 that has the same bit pattern, i.e.   *)
(* the value `x as ixlen` of the source.  The casts `as ixlen`/`as uxlen`  *)
(* are therefore the identity on the representation, and every unsigned    *)
(* operation of the source (comparison, checked add, logical shift) is     *)
(* written out on the bit pattern below.  \div and % are floor division    *)
(* and its non-negative remainder, so (w \div 2^k) % 2^n is the field of   *)
(* n bits starting at bit k for negative w too.                            *)
(***************************************************************************)
EXTENDS Integers, Sequences, FiniteSets, TLC

\* ------------------------------------------------------------------------
\* Bounds of the model
\* ------------------------------------------------------------------------

\* Longest program image, in instructions, drawn from all combinations of Words.
ImgLen == 2

\* Cycles of the run loop a behaviour of the model follows.
MaxCycles == 5

\* ------------------------------------------------------------------------
\* 32-bit arithmetic on bit patterns
\* ------------------------------------------------------------------------

MaxI32 == 2147483647

MinI32 == (-MaxI32) - 1

\* The n-bit field of w starting at bit lo (lo + n <= 32, n <= 30); bit 31 is
\* the sign of the representation.
Bits(w, lo, n) ==
    IF lo = 31 THEN (IF w < 0 THEN 1 ELSE 0)
    ELSE (w \div (2 ^ lo)) % (2 ^ n)

\* u32 `a < b`.
U32Lt(a, b) ==
    IF (a < 0) = (b < 0) THEN a < b ELSE b < 0

\* The sum a + b leaves the u32 range (what a checked `+` on uxlen traps on).
U32AddOverflows(a, b) ==
    \/ a < 0 /\ b < 0
    \/ (a < 0) # (b < 0) /\ a + b >= 0

\* wrapping_add on 32 bits.
wrapping_add(a, b) ==
    IF a >= 0 /\ b >= 0 /\ a > MaxI32 - b THEN (a + MinI32) + (b + MinI32)
    ELSE IF a < 0 /\ b < 0 /\ a < MinI32 - b THEN (a - MinI32) + (b - MinI32)
    ELSE a + b

\* wrapping subtraction on 32 bits, used for `addr as usize - start_addr as usize`
\* when addr >= start_addr.
wrapping_sub(a, b) ==
    IF b = MinI32 THEN wrapping_add(a, MinI32) ELSE wrapping_add(a, -b)

\* `x << s` on 32 bits, 0 <= s <= 31: the bits shifted out are lost.
Shl(x, s) ==
    IF s = 0 THEN x
    ELSE (IF s = 31 THEN 0 ELSE (x % (2 ^ (31 - s))) * (2 ^ s))
         + (IF Bits(x, 31 - s, 1) = 1 THEN MinI32 ELSE 0)

\* `x >> s` on i32 (arithmetic), 0 <= s <= 30.
Sar(x, s) == x \div (2 ^ s)

BitOp(op, p, q) ==
    CASE op = "and" -> IF p = 1 /\ q = 1 THEN 1 ELSE 0
      [] op = "or"  -> IF p = 1 \/ q = 1 THEN 1 ELSE 0
      [] op = "xor" -> IF p # q THEN 1 ELSE 0

RECURSIVE BitwiseLow(_, _, _, _)
BitwiseLow(op, a, b, n) ==
    IF n = 0 THEN 0
    ELSE BitOp(op, a % 2, b % 2) + 2 * BitwiseLow(op, a \div 2, b \div 2, n - 1)

\* `a & b`, `a | b`, `a ^ b` on 32 bits.
Bitwise(op, a, b) ==
    BitwiseLow(op, a, b, 31)
    + (IF BitOp(op, IF a < 0 THEN 1 ELSE 0, IF b < 0 THEN 1 ELSE 0) = 1
       THEN MinI32 ELSE 0)

\* ------------------------------------------------------------------------
\* Decoder (src/inst.rs)
\* ------------------------------------------------------------------------

\* Instruction::BYTES
BYTES == 4

opcode(w) == Bits(w, 0, 7)
rd(w)     == Bits(w, 7, 5)
funct3(w) == Bits(w, 12, 3)
rs1(w)    == Bits(w, 15, 5)
rs2(w)    == Bits(w, 20, 5)
funct7(w) == Bits(w, 25, 7)

\* The shift back done on u32 (logical): the field is returned zero-extended.
sign_extend_logical(value, bits) == value

\* sign_extend(value, bits) = ((value as i32) << (32 - bits)) >> (32 - bits)
sign_extend(value, bits) == Sar(Shl(value, 32 - bits), 32 - bits)

\* self.0 >> 20, sign-extended from 12 bits.
imm_i_zero_extended(w) == Bits(w, 20, 12)
imm_i(w) == sign_extend(Bits(w, 20, 12), 12)

\* imm11_5 | imm4_0 as the source assembles them, sign-extended from 12 bits.
imm_s(w) ==
    LET imm11_5 == Bits(w, 31, 1) * (2 ^ 12)
        imm4_0  == Bits(w, 25, 6) * (2 ^ 5)
    IN  sign_extend(imm11_5 + imm4_0, 12)

\* imm12 | imm11 | imm10_5 | imm4_1 (disjoint fields), sign-extended from 12 bits.
imm_b(w) ==
    LET imm12   == Bits(w, 31, 1) * (2 ^ 12)
        imm10_5 == Bits(w, 25, 6) * (2 ^ 5)
        imm4_1  == Bits(w, 8, 4) * 2
        imm11   == Bits(w, 7, 1) * (2 ^ 11)
    IN  sign_extend(imm12 + imm11 + imm10_5 + imm4_1, 12)

\* self.0 >> 12, sign-extended from 20 bits.
imm_u(w) == sign_extend(Bits(w, 12, 20), 20)

\* imm20 | imm11 | imm10_1 | imm19_12 (disjoint fields), sign-extended from 20 bits.
imm_j(w) ==
    LET imm20    == Bits(w, 31, 1) * (2 ^ 20)
        imm10_1  == Bits(w, 21, 10) * 2
        imm11    == Bits(w, 20, 1) * (2 ^ 11)
        imm19_12 == Bits(w, 12, 8) * (2 ^ 12)
    IN  sign_extend(imm20 + imm11 + imm10_1 + imm19_12, 20)

\* Instruction::kind: the match on (opcode, funct3, funct7), the binary
\* literals of the source written in decimal (0b0110111 = 55, 0b0010111 = 23,
\* 0b1101111 = 111, 0b1100011 = 99, 0b1100111 = 103, 0b0000011 = 3,
\* 0b0010011 = 19, 0b0100011 = 35, 0b0100000 = 32, 0b0110011 = 51).  The arms
\* are pairwise disjoint, so the order of the match does not matter.
kind(w) ==
    LET o  == opcode(w)
        f3 == funct3(w)
        f7 == funct7(w)
    IN  CASE o = 55 -> "Lui"
          [] o = 23 -> "Auipc"
          [] o = 111 -> "Jal"
          [] o = 99 /\ f3 = 0 -> "Beq"
          [] o = 99 /\ f3 = 1 -> "Bne"
          [] o = 99 /\ f3 = 4 -> "Blt"
          [] o = 99 /\ f3 = 5 -> "Bge"
          [] o = 99 /\ f3 = 6 -> "Bltu"
          [] o = 99 /\ f3 = 7 -> "Bgeu"
          [] o = 103 /\ f3 = 0 -> "Jalr"
          [] o = 3 /\ f3 = 0 -> "Lb"
          [] o = 3 /\ f3 = 1 -> "Lh"
          [] o = 3 /\ f3 = 2 -> "Lw"
          [] o = 3 /\ f3 = 4 -> "Lbu"
          [] o = 3 /\ f3 = 5 -> "Lhu"
          [] o = 19 /\ f3 = 0 -> "Addi"
          [] o = 19 /\ f3 = 2 -> "Slti"
          [] o = 19 /\ f3 = 3 -> "Sltiu"
          [] o = 19 /\ f3 = 4 -> "Xori"
          [] o = 19 /\ f3 = 6 -> "Ori"
          [] o = 19 /\ f3 = 7 -> "Andi"
          [] o = 35 /\ f3 = 0 -> "Sb"
          [] o = 35 /\ f3 = 1 -> "Sh"
          [] o = 35 /\ f3 = 2 -> "Sw"
          [] o = 19 /\ f3 = 1 /\ f7 = 0 -> "Slli"
          [] o = 19 /\ f3 = 5 /\ f7 = 0 -> "Srli"
          [] o = 19 /\ f3 = 5 /\ f7 = 32 -> "Srai"
          [] o = 0 /\ f3 = 0 /\ f7 = 51 -> "Add"
          [] o = 32 /\ f3 = 0 /\ f7 = 51 -> "Sub"
          [] o = 0 /\ f3 = 1 /\ f7 = 51 -> "Sll"
          [] o = 0 /\ f3 = 2 /\ f7 = 51 -> "Slt"
          [] o = 0 /\ f3 = 3 /\ f7 = 51 -> "Sltu"
          [] o = 0 /\ f3 = 4 /\ f7 = 51 -> "Xor"
          [] o = 0 /\ f3 = 5 /\ f7 = 51 -> "Srl"
          [] o = 32 /\ f3 = 5 /\ f7 = 51 -> "Sra"
          [] o = 0 /\ f3 = 6 /\ f7 = 51 -> "Or"
          [] o = 0 /\ f3 = 7 /\ f7 = 51 -> "And"
          [] OTHER -> "Unknown"

\* The unrecognized kind treated as fatal, like the todo!() stubs.
NotImplemented_and_Unknown ==
    {"Jalr", "Lb", "Lh", "Lw", "Lbu", "Lhu", "Slti", "Sltiu", "Sb", "Sh", "Sw",
     "Srli", "Srai", "Add", "Sub", "Sll", "Slt", "Sltu", "Xor", "Srl", "Sra",
     "Or", "And", "Unknown"}

\* The kinds whose arm of Cpu::execute is a todo!() stub.
NotImplemented ==
    {"Jalr", "Lb", "Lh", "Lw", "Lbu", "Lhu", "Slti", "Sltiu", "Sb", "Sh", "Sw",
     "Srli", "Srai", "Add", "Sub", "Sll", "Slt", "Sltu", "Xor", "Srl", "Sra",
     "Or", "And"}

Branches == {"Beq", "Bne", "Blt", "Bge", "Bltu", "Bgeu"}

\* ------------------------------------------------------------------------
\* Memory window (src/rom.rs)
\* ------------------------------------------------------------------------

\* Rom::new: the buffer (a sequence of bytes, offset 0 first) and the bounds.
Rom_new(bytes, start_addr, end_addr) ==
    [bytes |-> bytes, start_addr |-> start_addr, end_addr |-> end_addr]

\* Rom::size
size(r) == wrapping_sub(r.end_addr, r.start_addr)

\* The index expression of Rom::read, `addr as usize - self.start_addr as usize`,
\* is inside the buffer.  Below start_addr the subtraction traps or wraps to an
\* index far past the buffer; the access panics either way.
IndexInBuffer(r, addr) ==
    /\ ~U32Lt(addr, r.start_addr)
    /\ wrapping_sub(addr, r.start_addr) >= 0
    /\ wrapping_sub(addr, r.start_addr) < Len(r.bytes)

\* Rom::read where it does not panic.
read(r, addr) == r.bytes[wrapping_sub(addr, r.start_addr) + 1]

\* Rom::write where it does not panic.
write(r, addr, value) ==
    [r EXCEPT !.bytes[wrapping_sub(addr, r.start_addr) + 1] = value]

\* u32::from_le_bytes
from_le_bytes(b0, b1, b2, b3) ==
    b0 + 256 * b1 + 65536 * b2
    + 16777216 * (IF b3 >= 128 THEN b3 - 256 ELSE b3)

\* u32::to_le on a little-endian host.
to_le(w) == w

\* ------------------------------------------------------------------------
\* Register file (src/reg.rs)
\* ------------------------------------------------------------------------

RegIndex == 0 .. 31

\* Registers::new: all zero, then set_zero(0) and set_sp(rom_size).
Registers_new(rom_size) ==
    [[i \in RegIndex |-> 0] EXCEPT ![0] = 0, ![2] = rom_size]

\* ------------------------------------------------------------------------
\* Program images the engine is run on
\* ------------------------------------------------------------------------

\* A word from its top seven bits and its low twenty-five.
MkWord(hi7, low25) ==
    (IF hi7 >= 64 THEN hi7 - 128 ELSE hi7) * (2 ^ 25) + low25

\* RV32I encodings; imm is the signed immediate.
EncI(imm, s1, f3, d, op) ==
    MkWord(Bits(imm, 5, 7),
           Bits(imm, 0, 5) * (2 ^ 20) + s1 * (2 ^ 15) + f3 * (2 ^ 12) + d * (2 ^ 7) + op)

EncS(imm, s2, s1, f3) ==
    MkWord(Bits(imm, 5, 7),
           s2 * (2 ^ 20) + s1 * (2 ^ 15) + f3 * (2 ^ 12) + Bits(imm, 0, 5) * (2 ^ 7) + 35)

EncB(imm, s2, s1, f3) ==
    MkWord(Bits(imm, 12, 1) * 64 + Bits(imm, 5, 6),
           s2 * (2 ^ 20) + s1 * (2 ^ 15) + f3 * (2 ^ 12)
           + Bits(imm, 1, 4) * (2 ^ 8) + Bits(imm, 11, 1) * (2 ^ 7) + 99)

EncU(imm20, d, op) ==
    MkWord(Bits(imm20, 13, 7), Bits(imm20, 0, 13) * (2 ^ 12) + d * (2 ^ 7) + op)

EncJ(imm, d) ==
    MkWord(Bits(imm, 20, 1) * 64 + Bits(imm, 5, 6),
           Bits(imm, 1, 4) * (2 ^ 21) + Bits(imm, 11, 1) * (2 ^ 20)
           + Bits(imm, 12, 8) * (2 ^ 12) + d * (2 ^ 7) + 111)

EncR(f7, s2, s1, f3, d) ==
    MkWord(f7, s2 * (2 ^ 20) + s1 * (2 ^ 15) + f3 * (2 ^ 12) + d * (2 ^ 7) + 51)

ADDI(d, s1, imm)  == EncI(imm, s1, 0, d, 19)
XORI(d, s1, imm)  == EncI(imm, s1, 4, d, 19)
ORI(d, s1, imm)   == EncI(imm, s1, 6, d, 19)
ANDI(d, s1, imm)  == EncI(imm, s1, 7, d, 19)
SLLI(d, s1, sh)   == EncI(sh, s1, 1, d, 19)
LW(d, s1, imm)    == EncI(imm, s1, 2, d, 3)
LB(d, s1, imm)    == EncI(imm, s1, 0, d, 3)
LBU(d, s1, imm)   == EncI(imm, s1, 4, d, 3)
SW(s2, s1, imm)   == EncS(imm, s2, s1, 2)
LUI(d, imm20)     == EncU(imm20, d, 55)
AUIPC(d, imm20)   == EncU(imm20, d, 23)
JAL(d, imm)       == EncJ(imm, d)
BEQ(s1, s2, imm)  == EncB(imm, s2, s1, 0)
BNE(s1, s2, imm)  == EncB(imm, s2, s1, 1)
BLT(s1, s2, imm)  == EncB(imm, s2, s1, 4)
BGEU(s1, s2, imm) == EncB(imm, s2, s1, 7)
ADD(d, s1, s2)    == EncR(0, s2, s1, 0, d)
SUB(d, s1, s2)    == EncR(32, s2, s1, 0, d)
JALR(d, s1, imm)  == EncI(imm, s1, 0, d, 103)
SLTI(d, s1, imm)  == EncI(imm, s1, 2, d, 19)
SLTIU(d, s1, imm) == EncI(imm, s1, 3, d, 19)
SRLI(d, s1, sh)   == EncI(sh, s1, 5, d, 19)
SRAI(d, s1, sh)   == EncI(1024 + sh, s1, 5, d, 19)
SB(s2, s1, imm)   == EncS(imm, s2, s1, 0)
FENCE  == EncI(0, 0, 0, 0, 15)
ECALL  == EncI(0, 0, 0, 0, 115)
EBREAK == EncI(1, 0, 0, 0, 115)

\* 0xC0001073, the word Cpu::run stops on.
STOP_WORD == MkWord(96, 4211)

\* to_le_bytes of a sequence of words.
ImageBytes(img) ==
    [i \in 1 .. BYTES * Len(img) |->
        Bits(img[((i - 1) \div BYTES) + 1], 8 * ((i - 1) % BYTES), 8)]

\* The instruction words the product images are built from.
Words ==
    { ADDI(0, 0, 5), ADDI(1, 0, 7), ADDI(1, 1, -1),
      JAL(1, 8), JAL(0, -4),
      BEQ(0, 0, 16), BEQ(0, 0, -4), BNE(0, 0, 8), BLT(1, 2, 8),
      XORI(1, 1, -1), ORI(3, 0, 85), ANDI(3, 2, 12), SLLI(1, 1, 31),
      LUI(5, 74565), AUIPC(6, 1),
      FENCE, EBREAK, ECALL, -1, STOP_WORD,
      LW(3, 1, 0) }

RECURSIVE SeqsUpTo(_, _)
SeqsUpTo(S, n) ==
    IF n = 0 THEN {<<>>}
    ELSE LET shorter == SeqsUpTo(S, n - 1)
         IN  shorter \cup {Append(q, w) : q \in shorter, w \in S}

ProductImages == SeqsUpTo(Words, ImgLen) \ {<<>>}

\* The immediates of the ADDI scenarios.
AddiImms == {-2048, -3, 1, 2047}

\* x5 is built from a small constant, a shift and a complement, then used as
\* the operand of ADDI x6, x5, c: x5 ranges over 10, 1, -1, 0, their
\* complements, 0x80000000 and 0x7fffffff.
AddiImages ==
    { <<ADDI(5, 0, a), SLLI(5, 5, sh), XORI(5, 5, x), ADDI(6, 5, c)>> :
        a \in {10, 1, -1}, sh \in {0, 31}, x \in {0, -1}, c \in AddiImms }

\* [ADDI x1,x0,5; ADDI x2,x0,7; ADD x3,x1,x2; EBREAK]
SumImage == <<ADDI(1, 0, 5), ADDI(2, 0, 7), ADD(3, 1, 2), EBREAK>>

\* x1 holds the address of the last word of the image; x2 the value stored.
RoundTripImages ==
    { <<ADDI(1, 0, 12), SW(2, 1, 0), ld, ADDI(0, 0, 0)>> :
        ld \in {LW(3, 1, 0), LB(3, 1, 0), LBU(3, 1, 0)} }

\* One instruction of each kind whose arm of Cpu::execute is a todo!() stub,
\* after an instruction that gives x1 a value.
UnimplementedImages ==
    { <<ADDI(1, 0, 7), w>> :
        w \in { JALR(1, 0, 4), LW(3, 0, 0), LB(3, 0, 0), LBU(3, 0, 0),
                SW(1, 0, 0), SB(1, 0, 0), SLTI(3, 1, 9), SLTIU(3, 1, 9),
                SRLI(3, 1, 1), SRAI(3, 1, 1), ADD(3, 1, 1), SUB(3, 1, 1) } }

\* Forward branches whose offsets are not multiples of four or use bit 11 of
\* the B-immediate: BEQ x0,x0,+2 ahead of two more instructions, and
\* BEQ x0,x0,+4092.
ForwardBranchImages ==
    { <<BEQ(0, 0, 2), ADDI(1, 0, 7), ADDI(1, 0, 7)>>,
      <<ADDI(1, 0, 7), BEQ(0, 0, 4092)>> }

Images ==
    ProductImages \cup AddiImages \cup {SumImage} \cup RoundTripImages
    \cup UnimplementedImages \cup ForwardBranchImages

\* The start addresses of the memory window.
StartAddrs == {0, 8}

\* The environment-call hooks installed with on_ecall: the hook of the
\* riscv-tests driver (tests/src/main.rs) and a hook that always calls abort.
Hooks == {"run_test", "abort"}

\* Whether hook f, called with read access to the engine, calls cpu.abort().
HookAborts(f, r) ==
    CASE f = "run_test" -> r[17] = 93 /\ r[10] # 0
      [] f = "abort" -> TRUE

\* ------------------------------------------------------------------------
\* Execution engine (emu/src/cpu.rs)
\* ------------------------------------------------------------------------

VARIABLES
    regs,              \* Cpu::regs
    pc,                \* Cpu::pc
    rom,               \* Cpu::rom
    running,           \* Cpu::running
    handle_ecall,      \* Cpu::handle_ecall: "None" or the hook
    phase,             \* where the caller and Cpu::run are
    instruction_addr,  \* local of Cpu::run
    inst,              \* local of Cpu::run: the fetched word
    outcome,           \* how run ended: "none", "ok", "err" or "panic"
    cycles,            \* cycles started so far
    x0_at_boundary,    \* the value x0 held when the current cycle began
    hook_calls,        \* the (pc, regs) the hook was handed in the current cycle
    call,              \* the library function a client called directly, with its arguments
    ret                \* what that call returned

vars == <<regs, pc, rom, running, handle_ecall, phase, instruction_addr, inst,
          outcome, cycles, x0_at_boundary, hook_calls, call, ret>>

\* Cpu::new over a window holding exactly the image.
Init ==
    \E img \in Images, start \in StartAddrs :
        /\ rom = Rom_new(ImageBytes(img), start, start + BYTES * Len(img))
        /\ regs = Registers_new(size(rom))
        /\ pc = rom.start_addr
        /\ running = FALSE
        /\ handle_ecall = "None"
        /\ phase = "idle"
        /\ instruction_addr = 0
        /\ inst = 0
        /\ outcome = "none"
        /\ cycles = 0
        /\ x0_at_boundary = 0
        /\ hook_calls = <<>>
        /\ call = [fn |-> "none"]
        /\ ret = [status |-> "none"]

\* Cpu::on_ecall
on_ecall ==
    /\ phase = "idle"
    /\ UNCHANGED <<call, ret>>
    /\ \E f \in Hooks : handle_ecall' = f
    /\ UNCHANGED <<regs, pc, rom, running, phase, instruction_addr, inst,
                   outcome, cycles, x0_at_boundary, hook_calls>>

\* Cpu::abort called by the owner of the engine, which is possible only before
\* run consumes it.
abort ==
    /\ phase = "idle"
    /\ call' = [fn |-> "abort"]
    /\ UNCHANGED ret
    /\ running' = FALSE
    /\ UNCHANGED <<regs, pc, rom, handle_ecall, phase, instruction_addr, inst,
                   outcome, cycles, x0_at_boundary, hook_calls>>

\* Cpu::run up to the loop: self.running.set(true).
run ==
    /\ phase = "idle"
    /\ UNCHANGED <<call, ret>>
    /\ running' = TRUE
    /\ phase' = "loop"
    /\ UNCHANGED <<regs, pc, rom, handle_ecall, instruction_addr, inst,
                   outcome, cycles, x0_at_boundary, hook_calls>>

\* The condition of the while loop.
LoopCondition == U32Lt(pc, rom.end_addr) /\ running

\* The head of the loop: the condition, then set_zero(0) and the capture of
\* the instruction address; or the exit to Ok(()).
loop_head_no_zeroing ==
    /\ phase = "loop"
    /\ UNCHANGED <<call, ret>>
    /\ IF LoopCondition
       THEN /\ cycles < MaxCycles
            /\ instruction_addr' = pc
            /\ x0_at_boundary' = regs[0]
            /\ hook_calls' = <<>>
            /\ cycles' = cycles + 1
            /\ phase' = "fetch"
            /\ UNCHANGED <<regs, outcome>>
       ELSE /\ phase' = "done"
            /\ outcome' = "ok"
            /\ UNCHANGED <<regs, instruction_addr, x0_at_boundary, hook_calls, cycles>>
    /\ UNCHANGED <<pc, rom, running, handle_ecall, inst>>

loop_head ==
    /\ phase = "loop"
    /\ UNCHANGED <<call, ret>>
    /\ IF LoopCondition
       THEN /\ cycles < MaxCycles
            /\ regs' = [regs EXCEPT ![0] = 0]
            /\ instruction_addr' = pc
            /\ x0_at_boundary' = regs[0]
            /\ hook_calls' = <<>>
            /\ cycles' = cycles + 1
            /\ phase' = "fetch"
            /\ UNCHANGED outcome
       ELSE /\ phase' = "done"
            /\ outcome' = "ok"
            /\ UNCHANGED <<regs, instruction_addr, x0_at_boundary, hook_calls, cycles>>
    /\ UNCHANGED <<pc, rom, running, handle_ecall, inst>>

\* The four reads of Cpu::fetch all index inside the buffer.
FetchReadable == \A k \in 0 .. 3 : IndexInBuffer(rom, wrapping_add(pc, k))

\* One of self.pc + 1, self.pc + 2, self.pc + 3 leaves the u32 range.
FetchAddrOverflows == \E k \in 1 .. 3 : U32AddOverflows(pc, k)

\* What Cpu::fetch returns where it returns.
fetch_word ==
    from_le_bytes(read(rom, pc), read(rom, wrapping_add(pc, 1)),
                  read(rom, wrapping_add(pc, 2)), read(rom, wrapping_add(pc, 3)))

Panic ==
    /\ phase' = "done"
    /\ outcome' = "panic"

\* The fetch without the test for 0xC0001073: the word is decoded and executed
\* like any other.
fetch_without_stop_word ==
    /\ phase = "fetch"
    /\ UNCHANGED <<call, ret>>
    /\ \E overflow_checks \in BOOLEAN :
        IF ~FetchReadable \/ (FetchAddrOverflows /\ overflow_checks)
        THEN Panic /\ UNCHANGED inst
        ELSE /\ inst' = to_le(fetch_word)
             /\ phase' = "execute"
             /\ UNCHANGED outcome
    /\ UNCHANGED <<regs, pc, rom, running, handle_ecall, instruction_addr,
                   cycles, x0_at_boundary, hook_calls>>

\* let inst = self.fetch()?; the test for 0xC0001073; self.decode(inst).
\* A read outside the buffer panics.  An overflowing address computation
\* panics where overflow checks are compiled in and wraps where they are not.
fetch ==
    /\ phase = "fetch"
    /\ UNCHANGED <<call, ret>>
    /\ \E overflow_checks \in BOOLEAN :
        IF ~FetchReadable \/ (FetchAddrOverflows /\ overflow_checks)
        THEN Panic /\ UNCHANGED inst
        ELSE IF fetch_word = STOP_WORD
        THEN /\ inst' = fetch_word
             /\ phase' = "done"
             /\ outcome' = "ok"
        ELSE /\ inst' = to_le(fetch_word)
             /\ phase' = "execute"
             /\ UNCHANGED outcome
    /\ UNCHANGED <<regs, pc, rom, running, handle_ecall, instruction_addr,
                   cycles, x0_at_boundary, hook_calls>>

\* The value LUI writes: inst.imm_u() & 0x7ffff000.
lui_value(w) == Bitwise("and", imm_u(w), 2147479552)

\* The value AUIPC writes: addr.wrapping_add(inst.imm_u() & 0x7ffff000).
auipc_value(w, addr) == wrapping_add(addr, Bitwise("and", imm_u(w), 2147479552))

\* The target JAL stores in self.pc: addr.wrapping_add(inst.imm_j() * 2).
jal_target(w, addr) == wrapping_add(addr, imm_j(w) * 2)

\* The comparison of each branch arm, on the u32 register values.
branch_condition(k, a, b) ==
    CASE k = "Beq"  -> a = b
      [] k = "Bne"  -> a # b
      [] k = "Blt"  -> U32Lt(a, b)
      [] k = "Bge"  -> ~U32Lt(a, b)
      [] k = "Bltu" -> U32Lt(a, b)
      [] k = "Bgeu" -> ~U32Lt(a, b)

\* The arm of Cpu::execute taken for w changes self.pc to a branch target.
BranchTaken(w, r) ==
    /\ kind(w) \in Branches
    /\ branch_condition(kind(w), r[rs1(w)], r[rs2(w)])

\* Branch arms that also write a return address to x1.
execute_regs_branches_link(w, addr, r, p) ==
    LET k == kind(w)
        value ==
            CASE k = "Lui"   -> lui_value(w)
              [] k = "Auipc" -> auipc_value(w, addr)
              [] k = "Jal"   -> wrapping_add(p, BYTES)
              [] k = "Addi"  -> wrapping_add(r[rs1(w)], imm_i(w))
              [] k = "Xori"  -> Bitwise("xor", r[rs1(w)], imm_i(w))
              [] k = "Ori"   -> Bitwise("or", r[rs1(w)], imm_i(w))
              [] k = "Andi"  -> Bitwise("and", r[rs1(w)], imm_i(w))
              [] k = "Slli"  -> Shl(r[rs1(w)], Bitwise("and", imm_i(w), 31))
    IN  IF k \in {"Lui", "Auipc", "Jal", "Addi", "Xori", "Ori", "Andi", "Slli"}
        THEN [r EXCEPT ![rd(w)] = value]
        ELSE IF k \in Branches THEN [r EXCEPT ![1] = wrapping_add(p, BYTES)]
        ELSE r

\* The register file after the arm of Cpu::execute for w.
execute_regs(w, addr, r, p) ==
    LET k == kind(w)
        value ==
            CASE k = "Lui"   -> lui_value(w)
              [] k = "Auipc" -> auipc_value(w, addr)
              [] k = "Jal"   -> wrapping_add(p, BYTES)
              [] k = "Addi"  -> wrapping_add(r[rs1(w)], imm_i(w))
              [] k = "Xori"  -> Bitwise("xor", r[rs1(w)], imm_i(w))
              [] k = "Ori"   -> Bitwise("or", r[rs1(w)], imm_i(w))
              [] k = "Andi"  -> Bitwise("and", r[rs1(w)], imm_i(w))
              [] k = "Slli"  -> Shl(r[rs1(w)], Bitwise("and", imm_i(w), 31))
    IN  IF k \in {"Lui", "Auipc", "Jal", "Addi", "Xori", "Ori", "Andi", "Slli"}
        THEN [r EXCEPT ![rd(w)] = value]
        ELSE r

\* self.pc after the arm of Cpu::execute for w.
execute_pc(w, addr, r, p) ==
    IF kind(w) = "Jal" THEN jal_target(w, addr)
    ELSE IF BranchTaken(w, r) THEN wrapping_add(p, imm_b(w))
    ELSE p

\* The arm for w calls the installed hook.
CallsHook(w) == kind(w) = "ECall" /\ handle_ecall # "None"

\* self.execute(instruction, instruction_addr).  The todo!() arms panic; the
\* checked `self.pc + 4` of the JAL arm panics on overflow where overflow
\* checks are compiled in and wraps where they are not.
execute ==
    /\ phase = "execute"
    /\ UNCHANGED <<call, ret>>
    /\ \E overflow_checks \in BOOLEAN :
        IF \/ kind(inst) \in NotImplemented
           \/ kind(inst) = "Jal" /\ U32AddOverflows(pc, BYTES) /\ overflow_checks
        THEN Panic /\ UNCHANGED <<regs, pc, running, hook_calls>>
        ELSE /\ regs' = execute_regs(inst, instruction_addr, regs, pc)
             /\ pc' = execute_pc(inst, instruction_addr, regs, pc)
             /\ hook_calls' =
                   IF CallsHook(inst)
                   THEN Append(hook_calls, [pc |-> pc, regs |-> regs])
                   ELSE hook_calls
             /\ running' =
                   IF CallsHook(inst) /\ HookAborts(handle_ecall, regs)
                   THEN FALSE
                   ELSE running
             /\ phase' = "advance"
             /\ UNCHANGED outcome
    /\ UNCHANGED <<rom, handle_ecall, instruction_addr, inst, cycles, x0_at_boundary>>

\* The advance applied a second time in the same cycle.
advance_twice ==
    /\ phase = "advance"
    /\ UNCHANGED <<call, ret>>
    /\ pc' = wrapping_add(wrapping_add(pc, BYTES), BYTES)
    /\ phase' = "loop"
    /\ UNCHANGED <<regs, rom, running, handle_ecall, instruction_addr, inst,
                   outcome, cycles, x0_at_boundary, hook_calls>>

\* self.pc += Instruction::BYTES: a checked add, which panics on overflow where
\* overflow checks are compiled in and wraps where they are not.
advance ==
    /\ phase = "advance"
    /\ UNCHANGED <<call, ret>>
    /\ \E overflow_checks \in BOOLEAN :
        IF U32AddOverflows(pc, BYTES) /\ overflow_checks
        THEN Panic /\ UNCHANGED pc
        ELSE /\ pc' = wrapping_add(pc, BYTES)
             /\ phase' = "loop"
             /\ UNCHANGED outcome
    /\ UNCHANGED <<regs, rom, running, handle_ecall, instruction_addr, inst,
                   cycles, x0_at_boundary, hook_calls>>

Next ==
    \/ on_ecall
    \/ abort
    \/ run
    \/ loop_head
    \/ fetch
    \/ execute
    \/ advance

Spec == Init /\ [][Next]_vars

\* ------------------------------------------------------------------------
\* The decoder called directly (src/inst.rs): sign_extend, the immediate
\* accessors and kind applied to bounded sets of arguments
\* ------------------------------------------------------------------------

\* How many values on each side of 0, 2^(n-1) and 2^n are taken for the wide
\* widths of sign_extend.
EdgeSpan == 64

\* The widths `bits` sign_extend is used or specified with.
SignExtendWidths == {12, 13, 20, 21}

\* Raw values occupying the low n bits: all of them for the narrow widths,
\* the neighbourhoods of 0, of the sign boundary and of the top, and the
\* single-bit values, for the wide ones.
RawValues(n) ==
    IF n <= 13 THEN 0 .. (2 ^ n) - 1
    ELSE (0 .. EdgeSpan - 1)
         \cup ((2 ^ (n - 1)) - EdgeSpan .. (2 ^ (n - 1)) + EdgeSpan - 1)
         \cup ((2 ^ n) - EdgeSpan .. (2 ^ n) - 1)
         \cup {2 ^ k : k \in 0 .. n - 1}

\* Instruction words: every combination of a few values of each bit range
\* the immediate formats are cut from, under the opcodes of the formats.
DecodeWords ==
    { MkWord(b31 * 64 + b30_25,
             b24_20 * (2 ^ 20) + b19_12 * (2 ^ 12) + b11_7 * (2 ^ 7) + op) :
        b31 \in {0, 1}, b30_25 \in {0, 1, 32, 63}, b24_20 \in {0, 1, 16, 31},
        b19_12 \in {0, 1, 128, 255}, b11_7 \in {0, 1, 16, 31},
        op \in {99, 111, 35, 55, 51} }

\* The (funct7, funct3) pairs of the R-type arms of Instruction::kind.
RTypePairs ==
    { <<0, 0>>, <<32, 0>>, <<0, 1>>, <<0, 2>>, <<0, 3>>,
      <<0, 4>>, <<0, 5>>, <<32, 5>>, <<0, 6>>, <<0, 7>> }

\* R-type words (opcode 0110011) with those pairs and a few register fields.
RTypeWords ==
    { EncR(p[1], s2, s1, p[2], d) :
        p \in RTypePairs, s2 \in {0, 2, 31}, s1 \in {0, 1, 31}, d \in {0, 3, 31} }

\* The calls a client of the decoder makes.
DecoderCalls ==
    { [fn |-> "sign_extend", value |-> v, bits |-> n] :
        n \in SignExtendWidths, v \in UNION {RawValues(m) : m \in SignExtendWidths} }
    \cup { [fn |-> f, word |-> w] :
             f \in {"imm_s", "imm_b", "imm_u", "imm_j", "kind"}, w \in DecodeWords }
    \cup { [fn |-> "kind", word |-> w] : w \in RTypeWords }

\* An engine that is constructed and never run, next to which the library
\* functions are called.
InitLibrary ==
    /\ regs = Registers_new(size(rom))
    /\ pc = rom.start_addr
    /\ running = FALSE
    /\ handle_ecall = "None"
    /\ phase = "library"
    /\ instruction_addr = 0
    /\ inst = 0
    /\ outcome = "none"
    /\ cycles = 0
    /\ x0_at_boundary = 0
    /\ hook_calls = <<>>
    /\ ret = [status |-> "none"]

InitDecoder ==
    /\ rom = Rom_new(ImageBytes(SumImage), 0, BYTES * Len(SumImage))
    /\ InitLibrary
    /\ call \in {c \in DecoderCalls : c.fn # "sign_extend" \/ c.value \in RawValues(c.bits)}

Returns(v) ==
    /\ ret.status = "none"
    /\ ret' = [status |-> "ok", value |-> v]
    /\ UNCHANGED <<regs, pc, rom, running, handle_ecall, phase, instruction_addr,
                   inst, outcome, cycles, x0_at_boundary, hook_calls, call>>

Call_sign_extend ==
    /\ call.fn = "sign_extend"
    /\ Returns(sign_extend(call.value, call.bits))

Call_imm_s == call.fn = "imm_s" /\ Returns(imm_s(call.word))

Call_imm_b == call.fn = "imm_b" /\ Returns(imm_b(call.word))

Call_imm_u == call.fn = "imm_u" /\ Returns(imm_u(call.word))

Call_imm_j == call.fn = "imm_j" /\ Returns(imm_j(call.word))

Call_kind == call.fn = "kind" /\ Returns(kind(call.word))

NextDecoder ==
    \/ Call_sign_extend
    \/ Call_imm_s
    \/ Call_imm_b
    \/ Call_imm_u
    \/ Call_imm_j
    \/ Call_kind

SpecDecoder == InitDecoder /\ [][NextDecoder]_vars

\* ------------------------------------------------------------------------
\* The memory window called directly (src/rom.rs): Rom::new over a buffer
\* and bounds, then read and write
\* ------------------------------------------------------------------------

\* The longest buffer and the widest window, in bytes.
MaxRomLen == 3

ByteValues == {0, 171, 255}

\* The addresses read and written: around the windows, and the top of the
\* address space.
RomAddrs == (0 .. 8 + MaxRomLen + 1) \cup {-1}

\* Rom::new accepts any slice with any bounds; main hands it the slice
\* bytes[(tohost - start)..(end - start)] with the bounds (start, end), whose
\* length is end - tohost.
InitRom ==
    /\ \E start \in StartAddrs, width \in 0 .. MaxRomLen, len \in 0 .. MaxRomLen :
         \E bytes \in [1 .. len -> ByteValues] :
            rom = Rom_new(bytes, start, start + width)
    /\ InitLibrary
    /\ call = [fn |-> "none"]

Rom_read ==
    /\ phase = "library"
    /\ ret.status # "panic"
    /\ \E addr \in RomAddrs :
        /\ call' = [fn |-> "read", addr |-> addr]
        /\ ret' = IF IndexInBuffer(rom, addr)
                  THEN [status |-> "ok", value |-> read(rom, addr)]
                  ELSE [status |-> "panic"]
        /\ UNCHANGED rom
    /\ UNCHANGED <<regs, pc, running, handle_ecall, phase, instruction_addr,
                   inst, outcome, cycles, x0_at_boundary, hook_calls>>

Rom_write ==
    /\ phase = "library"
    /\ ret.status # "panic"
    /\ \E addr \in RomAddrs, value \in ByteValues :
        /\ call' = [fn |-> "write", addr |-> addr, value |-> value]
        /\ IF IndexInBuffer(rom, addr)
           THEN /\ rom' = write(rom, addr, value)
                /\ ret' = [status |-> "ok"]
           ELSE /\ ret' = [status |-> "panic"]
                /\ UNCHANGED rom
    /\ UNCHANGED <<regs, pc, running, handle_ecall, phase, instruction_addr,
                   inst, outcome, cycles, x0_at_boundary, hook_calls>>

NextRom ==
    \/ Rom_read
    \/ Rom_write

SpecRom == InitRom /\ [][NextRom]_vars

\* ------------------------------------------------------------------------
\* Reference semantics used by the properties (RV32I, independent of the
\* decoder and executor above)
\* ------------------------------------------------------------------------

\* A cycle has run to its end and the loop is about to test its condition:
\* instruction_addr and inst are those of the cycle just completed.
CycleCompleted == phase = "loop" /\ cycles > 0

\* The n-bit two's-complement value of the field v.
TwosComplement(v, n) == IF v >= 2 ^ (n - 1) THEN v - 2 ^ n ELSE v

\* (a + b) mod 2^32, computed on 16-bit halves.
AddMod32(a, b) ==
    LET lo == Bits(a, 0, 16) + Bits(b, 0, 16)
        hi == (Bits(a, 16, 16) + Bits(b, 16, 16) + (lo \div 65536)) % 65536
    IN  TwosComplement(hi, 16) * 65536 + (lo % 65536)

\* The RV32I immediates.
RefImmI(w) == TwosComplement(Bits(w, 20, 12), 12)

RefImmB(w) ==
    TwosComplement(Bits(w, 31, 1) * 4096 + Bits(w, 7, 1) * 2048
                   + Bits(w, 25, 6) * 32 + Bits(w, 8, 4) * 2, 13)

RefImmJ(w) ==
    TwosComplement(Bits(w, 31, 1) * 1048576 + Bits(w, 12, 8) * 4096
                   + Bits(w, 20, 1) * 2048 + Bits(w, 21, 10) * 2, 21)

IsJal(w) == opcode(w) = 111

IsBranch(w) == opcode(w) = 99 /\ funct3(w) \in {0, 1, 4, 5, 6, 7}

IsAddi(w) == opcode(w) = 19 /\ funct3(w) = 0

\* The relation each branch names: signed for BLT/BGE, unsigned for BLTU/BGEU.
RefBranchHolds(w, r) ==
    LET a == r[rs1(w)]
        b == r[rs2(w)]
    IN  CASE funct3(w) = 0 -> a = b
          [] funct3(w) = 1 -> a # b
          [] funct3(w) = 4 -> a < b
          [] funct3(w) = 5 -> a >= b
          [] funct3(w) = 6 -> U32Lt(a, b)
          [] funct3(w) = 7 -> ~U32Lt(a, b)

\* Address a lies in [start_addr, end_addr).
InWindow(a) == ~U32Lt(a, rom.start_addr) /\ U32Lt(a, rom.end_addr)

RefImmS(w) == TwosComplement(Bits(w, 25, 7) * 32 + Bits(w, 7, 5), 12)

\* word & 0xFFFFF000
RefImmU(w) == w - Bits(w, 0, 12)

IsLui(w) == opcode(w) = 55

\* The RV32I R-type ALU operation named by (funct7, funct3).
RefRKind(f7, f3) ==
    CASE f7 = 0 /\ f3 = 0 -> "Add"
      [] f7 = 32 /\ f3 = 0 -> "Sub"
      [] f7 = 0 /\ f3 = 1 -> "Sll"
      [] f7 = 0 /\ f3 = 2 -> "Slt"
      [] f7 = 0 /\ f3 = 3 -> "Sltu"
      [] f7 = 0 /\ f3 = 4 -> "Xor"
      [] f7 = 0 /\ f3 = 5 -> "Srl"
      [] f7 = 32 /\ f3 = 5 -> "Sra"
      [] f7 = 0 /\ f3 = 6 -> "Or"
      [] f7 = 0 /\ f3 = 7 -> "And"
      [] OTHER -> "Unknown"

\* The direct call of library function f has returned.
Returned(f) == call.fn = f /\ ret.status = "ok"

\* Address a lies in [start_addr, end_addr) of window r.
InWindowOf(r, a) == ~U32Lt(a, r.start_addr) /\ U32Lt(a, r.end_addr)

IsAuipc(w) == opcode(w) = 23

\* ~b on 32 bits.
BitNot(b) == (-1) - b

\* The RV32I encodings of the kinds JALR, loads, stores, SLTI, SLTIU, SRLI,
\* SRAI and the register-register ALU operations.
RefUnimplemented(w) ==
    \/ opcode(w) = 103 /\ funct3(w) = 0
    \/ opcode(w) = 3 /\ funct3(w) \in {0, 1, 2, 4, 5}
    \/ opcode(w) = 35 /\ funct3(w) \in {0, 1, 2}
    \/ opcode(w) = 19 /\ funct3(w) \in {2, 3}
    \/ opcode(w) = 19 /\ funct3(w) = 5 /\ funct7(w) \in {0, 32}
    \/ opcode(w) = 51 /\ RefRKind(funct7(w), funct3(w)) # "Unknown"

\* The register file after ADD or SUB word w on register file r.
RefAddSub(w, r) ==
    LET a == r[rs1(w)]
        b == r[rs2(w)]
    IN  [r EXCEPT ![rd(w)] =
            IF funct7(w) = 0 THEN AddMod32(a, b)
            ELSE AddMod32(AddMod32(a, BitNot(b)), 1)]

IsAddSub(w) == opcode(w) = 51 /\ funct3(w) = 0 /\ funct7(w) \in {0, 32}

\* A branch or jump word whose RV32I offset is negative.
RefNegativeOffset(w) ==
    \/ IsBranch(w) /\ RefImmB(w) < 0
    \/ IsJal(w) /\ RefImmJ(w) < 0

\* The four bytes of window r at address a are those of 0xC0001073.
StopWordAt(r, a) ==
    LET off == a - r.start_addr
    IN  /\ off >= 0
        /\ off + 4 <= Len(r.bytes)
        /\ SubSeq(r.bytes, off + 1, off + 4) = <<115, 16, 0, 192>>

\* ------------------------------------------------------------------------
\* Properties
\* ------------------------------------------------------------------------

\* C1: whenever the instruction of a cycle is fetched or reads its operands,
\* register x0 holds 0, whatever the previous cycle wrote to it.
C1_ZeroRegisterReadsZero ==
    phase \in {"fetch", "execute"} => regs[0] = 0

\* C1 witness: an instruction with rs1 = 0 is about to read its operands in a
\* cycle that began with a non-zero value left in x0 by the previous cycle.
C1_Witness ==
    /\ phase = "execute"
    /\ x0_at_boundary # 0
    /\ kind(inst) = "Addi"
    /\ rs1(inst) = 0
    /\ regs[0] = 0

\* C2: after the cycle of a JAL fetched at A, rd = A + 4 and the PC is
\* A + imm (mod 2^32), imm the J-immediate: the +4 advance is not added on top.
C2_JalLinksAndJumpsOnce ==
    (CycleCompleted /\ IsJal(inst)) =>
        /\ regs[rd(inst)] = AddMod32(instruction_addr, 4)
        /\ pc = AddMod32(instruction_addr, RefImmJ(inst))

\* C3: after the cycle of a branch fetched at A whose condition holds, the PC
\* is A + imm (mod 2^32), imm the B-immediate, not A + imm + 4.
C3_TakenBranchTarget ==
    (CycleCompleted /\ IsBranch(inst) /\ RefBranchHolds(inst, regs)) =>
        pc = AddMod32(instruction_addr, RefImmB(inst))

\* C4: a cycle that executes a branch the engine does not take, or any
\* instruction that is not JAL or a branch, ends with PC = A + 4, A the
\* address the instruction was fetched from.
C4_FallThroughAdvancesOnce ==
    (CycleCompleted /\ ~IsJal(inst) /\ ~BranchTaken(inst, regs)) =>
        pc = AddMod32(instruction_addr, 4)

\* C4 witness: a cycle that executed a branch which was not taken has ended.
C4_Witness ==
    /\ CycleCompleted
    /\ IsBranch(inst)
    /\ ~BranchTaken(inst, regs)
    /\ pc = AddMod32(instruction_addr, 4)

\* C5: executing ADDI never faults and leaves rd = (rs1 + sext12(bits[31:20]))
\* mod 2^32, for every value of rs1 and every immediate.
C5_AddiWraps ==
    [][(phase = "execute" /\ IsAddi(inst)) =>
          /\ phase' = "advance"
          /\ regs'[rd(inst)] = AddMod32(regs[rs1(inst)], RefImmI(inst))]_vars

\* C5 witness: x5 = 10 and ADDI x6, x5, -3 has just left 7 in x6.
C5_Witness ==
    /\ phase = "advance"
    /\ inst = ADDI(6, 5, -3)
    /\ regs[5] = 10
    /\ regs[6] = 7

\* C6: the image [ADDI x1,x0,5; ADDI x2,x0,7; ADD x3,x1,x2; EBREAK] at
\* start_addr = 0, run to completion, returns cleanly with x1 = 5, x2 = 7,
\* x3 = 12 and the PC at or past 16.
C6_SumScenario ==
    (phase = "done" /\ rom.start_addr = 0 /\ rom.bytes = ImageBytes(SumImage)) =>
        /\ outcome = "ok"
        /\ regs[1] = 5
        /\ regs[2] = 7
        /\ regs[3] = 12
        /\ ~U32Lt(pc, 16)

\* C7: on the image that stores x2 with SW x2,0(x1) and loads the same
\* address into x3, the run ends cleanly with x3 = x2 after LW, with the
\* sign-extended low byte of x2 after LB and the zero-extended one after LBU.
C7_StoreLoadRoundTrip ==
    (phase = "done" /\ rom.start_addr = 0
        /\ \E img \in RoundTripImages : rom.bytes = ImageBytes(img)) =>
        /\ outcome = "ok"
        /\ \/ rom.bytes = ImageBytes(<<ADDI(1, 0, 12), SW(2, 1, 0), LW(3, 1, 0), ADDI(0, 0, 0)>>)
              /\ regs[3] = regs[2]
           \/ rom.bytes = ImageBytes(<<ADDI(1, 0, 12), SW(2, 1, 0), LB(3, 1, 0), ADDI(0, 0, 0)>>)
              /\ regs[3] = TwosComplement(Bits(regs[2], 0, 8), 8)
           \/ rom.bytes = ImageBytes(<<ADDI(1, 0, 12), SW(2, 1, 0), LBU(3, 1, 0), ADDI(0, 0, 0)>>)
              /\ regs[3] = Bits(regs[2], 0, 8)

\* C8: an instruction fetch whose four bytes are not all inside
\* [start_addr, end_addr) makes run return an error result.
C8_OutOfRangeFetchIsError ==
    [][(phase = "fetch" /\ ~(\A k \in 0 .. 3 : InWindow(AddMod32(pc, k)))) =>
          (phase' = "done" /\ outcome' = "err")]_vars

C10_HookInvokedOnEcall ==
    (phase = "advance" /\ inst = ECALL /\ handle_ecall # "None") =>
        /\ Len(hook_calls) = 1
        /\ hook_calls[1].pc = instruction_addr
        /\ hook_calls[1].regs = regs

\* C11: for every width n in {12, 13, 20, 21} and every raw value v in the
\* low n bits, sign_extend(v, n) is the n-bit two's-complement value of v.
C11_SignExtendIsTwosComplement ==
    Returned("sign_extend") =>
        ret.value = TwosComplement(call.value, call.bits)

\* sign_extend has returned -4096 for the 13-bit field 0x1000, and the
\* negative boundary of every width has been extended.
C11_Witness ==
    /\ Returned("sign_extend")
    /\ call.bits = 13
    /\ call.value = 4096
    /\ ret.value = -4096

\* C12: for every word, imm_b returns the 13-bit two's-complement value
\* bits[31]<<12 | bits[7]<<11 | bits[30:25]<<5 | bits[11:8]<<1: an even
\* number in [-4096, 4094] whose sign is bit 31 of the word.
C12_ImmBIsThirteenBits ==
    Returned("imm_b") =>
        /\ ret.value = RefImmB(call.word)
        /\ ret.value % 2 = 0
        /\ ret.value \in -4096 .. 4094
        /\ (ret.value < 0) = (call.word < 0)

\* C13: for every word, imm_j returns the 21-bit two's-complement value
\* bits[31]<<20 | bits[19:12]<<12 | bits[20]<<11 | bits[30:21]<<1: an even
\* byte offset whose sign is bit 31 of the word.
C13_ImmJIsTwentyOneBits ==
    Returned("imm_j") =>
        /\ ret.value = RefImmJ(call.word)
        /\ ret.value % 2 = 0
        /\ (ret.value < 0) = (call.word < 0)

\* C14: for every word, imm_s returns the 12-bit two's-complement value
\* bits[31:25]<<5 | bits[11:7]: its low five bits are bits 11..7 of the word
\* and it lies in [-2048, 2047].
C14_ImmSIsTwelveBits ==
    Returned("imm_s") =>
        /\ ret.value = RefImmS(call.word)
        /\ ret.value % 32 = Bits(call.word, 7, 5)
        /\ ret.value \in -2048 .. 2047

\* C15: when a LUI word has executed, rd holds word & 0xFFFFF000: bits 31..12
\* of the word in place, the low 12 bits zero.
C15_LuiLeftJustified ==
    (phase = "advance" /\ IsLui(inst)) => regs[rd(inst)] = RefImmU(inst)

\* C16: every word with the R-type opcode 0110011 and one of the ten RV32I
\* (funct7, funct3) pairs is classified as the matching kind, never as the
\* unrecognized kind.
C16_RTypeClassified ==
    (/\ Returned("kind")
     /\ opcode(call.word) = 51
     /\ RefRKind(funct7(call.word), funct3(call.word)) # "Unknown") =>
        ret.value = RefRKind(funct7(call.word), funct3(call.word))

\* C17: a branch with a non-zero offset redirects the PC exactly when its
\* relation holds between rs1 and rs2, read as signed 32-bit integers for
\* BLT/BGE and as unsigned for BLTU/BGEU.
C17_BranchSignedness ==
    [][(phase = "execute" /\ IsBranch(inst) /\ imm_b(inst) # 0) =>
          ((pc' # pc) <=> RefBranchHolds(inst, regs))]_vars

\* C18: a cycle is started, and an instruction fetched, only at a PC inside
\* [start_addr, end_addr); when the PC has left the window on either side,
\* run returns cleanly without fetching.
C18_RunStaysInWindow ==
    phase \in {"fetch", "execute", "advance"} =>
        (InWindow(instruction_addr) /\ running)

\* C19: on a window built by Rom::new(bytes, start_addr, end_addr), read(a)
\* and write(a, b) succeed exactly when start_addr <= a < end_addr; a read
\* that succeeds returns the byte at offset a - start_addr, a write that
\* succeeds changes that byte and no other, and a failed access changes
\* nothing.
C19_RomWindowBounds ==
    [][(call'.fn \in {"read", "write"} /\ ret.status # "panic") =>
          LET a == call'.addr
              off == wrapping_sub(a, rom.start_addr) + 1
          IN  /\ (ret'.status = "ok") <=> InWindowOf(rom, a)
              /\ (ret'.status = "ok" /\ call'.fn = "read") =>
                    (ret'.value = rom.bytes[off] /\ rom' = rom)
              /\ (ret'.status = "ok" /\ call'.fn = "write") =>
                    rom' = [rom EXCEPT !.bytes[off] = call'.value]
              /\ ret'.status # "ok" => rom' = rom]_vars

C21_PcAlignedAtFetch ==
    phase = "fetch" => pc % 4 = 0

\* C22: once abort() has been called on the engine, the running flag stays
\* false and run executes no cycle.
C22_AbortBeforeRunIsEffective ==
    call.fn = "abort" => (~running /\ cycles = 0)

\* C23: when an AUIPC word fetched at address A has executed, rd holds
\* (A + (word & 0xFFFFF000)) mod 2^32.
C23_AuipcAddsUpperImmediate ==
    (phase = "advance" /\ IsAuipc(inst)) =>
        regs[rd(inst)] = AddMod32(instruction_addr, RefImmU(inst))

\* C24: right after construction over [start_addr, end_addr) the PC is
\* start_addr, the running flag is false, x2 is end_addr and every other
\* register is 0.
C24_ConstructedState ==
    phase = "idle" =>
        /\ pc = rom.start_addr
        /\ ~running
        /\ regs[2] = rom.end_addr
        /\ \A i \in RegIndex \ {2} : regs[i] = 0

\* C25: an RV32I encoding of a kind without an implemented handler is never a
\* silent no-op: its cycle either stops the run with a fatal failure or
\* applies the instruction's effect.
C25_UnimplementedIsFatal ==
    [][(phase = "execute" /\ RefUnimplemented(inst)) =>
          \/ phase' = "done" /\ outcome' = "panic"
          \/ IsAddSub(inst) /\ regs' = RefAddSub(inst, regs)]_vars

\* C26: in the cycle of a branch, FENCE, EBREAK or ECALL, executing the
\* instruction and advancing the PC change none of x1..x31 and no byte of
\* the memory window.
C26_ControlAndSystemFrame ==
    [][(/\ phase \in {"execute", "advance"}
        /\ IsBranch(inst) \/ inst \in {FENCE, EBREAK, ECALL}) =>
          /\ \A i \in 1 .. 31 : regs'[i] = regs[i]
          /\ rom' = rom]_vars

\* The cycle of a taken branch has completed after x1 was given the value 7.
C26_Witness ==
    /\ CycleCompleted
    /\ IsBranch(inst)
    /\ pc # AddMod32(instruction_addr, 4)
    /\ regs[1] = 7

\* C27: a fetch of the word 0xC0001073 ends run at once with a clean return:
\* no register changes, the PC stays at the word, the hook is not invoked,
\* and nothing happens afterwards.
C27_StopWordEndsRun ==
    [][/\ (phase = "fetch" /\ StopWordAt(rom, pc)) =>
             /\ phase' = "done"
             /\ outcome' = "ok"
             /\ regs' = regs
             /\ pc' = pc
             /\ rom' = rom
             /\ hook_calls' = hook_calls
       /\ phase = "done" => UNCHANGED vars]_vars

\* run has returned cleanly at the stop word, which was fetched in the second
\* cycle with an ECALL hook installed.
C27_Witness ==
    /\ phase = "done"
    /\ outcome = "ok"
    /\ inst = STOP_WORD
    /\ StopWordAt(rom, pc)
    /\ pc = instruction_addr
    /\ cycles = 2
    /\ handle_ecall # "None"
    /\ hook_calls = <<>>

\* C28: every completed cycle whose instruction is not a branch or jump with
\* a negative offset leaves the PC at least 4 above the instruction's
\* address, so that the PC reaches end_addr within (end_addr - start_addr)/4
\* cycles.
C28_PcStrictlyIncreases ==
    (CycleCompleted /\ ~RefNegativeOffset(inst)) =>
        U32Lt(AddMod32(instruction_addr, 3), pc)

====
